---- MODULE Spec2Model ----
(***************************************************************************)
(* Model of converter.py: the archive extractor (extract_archive), the     *)
(* markup normalizer (fix_xhtml_content), the package repackager           *)
(* (fix_html_and_repack_epub) and the batch driver (main), over an         *)
(* abstract filesystem.                                                    *)
(*                                                                         *)
(* A file name is the sequence of its dot-separated pieces                 *)
(* (book.temp.epub is <<"book","temp","epub">>); a path inside a package   *)
(* or a working folder is a sequence of file names; the content of a file  *)
(* is a sequence of tokens.                                                *)
(***************************************************************************)
EXTENDS Naturals, Sequences, FiniteSets, TLC

VARIABLES
    pc,          \* position of main: "start", "items", "post", "done", "noinput"
    inputExists, \* whether the input directory exists
    todo,        \* items of the input directory not yet visited by main's loop
    scratch,     \* the temporary directory: [exists, dirs]
    output,      \* the output directory: file name -> file
    epubTodo,    \* snapshot of output_dir.glob('*.epub') not yet visited
    ex,          \* record of the last extract_archive call
    rp,          \* record of the last fix_html_and_repack_epub call
    frag,        \* content of the markup file handed to fix_xhtml_content
    nz           \* record of the last fix_xhtml_content call

vars == <<pc, inputExists, todo, scratch, output, epubTodo, ex, rp, frag, nz>>

batchVars == <<pc, inputExists, todo, scratch, output, epubTodo, ex, rp>>

normVars == <<frag, nz>>

(***************************************************************************)
(* Bounds                                                                  *)
(***************************************************************************)
\* longest markup fragment (in tokens) handed to the normalizer on its own
MaxTokens == 4

\* largest number of items in the input directory of a batch run
MaxItems == 2

(***************************************************************************)
(* Generic helpers                                                         *)
(***************************************************************************)
Last(s) == s[Len(s)]

\* f overridden by g wherever g is defined
Merge(f, g) ==
    [x \in (DOMAIN f) \cup (DOMAIN g) |-> IF x \in DOMAIN g THEN g[x] ELSE f[x]]

Without(f, S) == [x \in (DOMAIN f) \ S |-> f[x]]

EmptyFn == [x \in {} |-> x]

RECURSIVE SelectIdx(_, _, _)
\* the subsequence of s at the indices i >= n that are in K, in order
SelectIdx(s, K, n) ==
    IF n > Len(s) THEN <<>>
    ELSE (IF n \in K THEN <<s[n]>> ELSE <<>>) \o SelectIdx(s, K, n + 1)

Min(S) == CHOOSE x \in S : \A y \in S : x <= y

\* all orderings of the finite set S, as sequences
Orderings(S) ==
    {o \in [1..Cardinality(S) -> S] : \A i, j \in 1..Cardinality(S) : i # j => o[i] # o[j]}

(***************************************************************************)
(* pathlib: Path.stem, Path.suffix, Path.with_suffix                       *)
(***************************************************************************)
Stem(n) == IF Len(n) > 1 THEN SubSeq(n, 1, Len(n) - 1) ELSE n

Suffix(n) == IF Len(n) > 1 THEN Last(n) ELSE ""

\* epub_path.with_suffix('.temp.epub')
TempEpubPath(n) == Stem(n) \o <<"temp", "epub">>

MimetypeName == <<"mimetype">>

MimetypePath == <<MimetypeName>>

(***************************************************************************)
(* Markup fragments                                                        *)
(***************************************************************************)
Tok(k, id, c, s) == [k |-> k, id |-> id, class |-> c, style |-> s]

BodyTok(id) == Tok("body", id, FALSE, FALSE)

EndBodyTok(id) == Tok("endbody", id, FALSE, FALSE)

TextTok(id) == Tok("text", id, FALSE, FALSE)

\* a byte sequence that is not UTF-8
BadTok(id) == Tok("bad", id, FALSE, FALSE)

ImgTok(id, c, s) == Tok("img", id, c, s)

Decodable(doc) == \A i \in 1..Len(doc) : doc[i].k # "bad"

BodyStarts(doc) == {i \in 1..Len(doc) : doc[i].k = "body"}

HasBody(doc) == BodyStarts(doc) # {}

RECURSIVE BodyEnd(_, _, _)
\* the parser at token i with d body elements open since the first body
\* start tag: the index of the end tag that closes that first body,
\* Len(doc) + 1 when it is closed by the end of the input
BodyEnd(doc, i, d) ==
    IF i > Len(doc) THEN i
    ELSE IF doc[i].k = "body" THEN BodyEnd(doc, i + 1, d + 1)
    ELSE IF doc[i].k = "endbody"
         THEN (IF d = 1 THEN i ELSE BodyEnd(doc, i + 1, d - 1))
    ELSE BodyEnd(doc, i + 1, d)

\* soup.find('body'): the first body element, as its pair of tag positions
FindBody(doc) ==
    LET s == Min(BodyStarts(doc))
    IN  [start |-> s, end |-> BodyEnd(doc, s + 1, 1)]

\* body.find_all('img'): positions of the img elements in the body
BodyImgIdx(doc) ==
    IF ~HasBody(doc) THEN {}
    ELSE LET b == FindBody(doc)
         IN  {i \in 1..Len(doc) : b.start < i /\ i < b.end /\ doc[i].k = "img"}

\* body.find_all('img') in document order
BodyImgs(doc) == SelectIdx(doc, BodyImgIdx(doc), 1)

RECURSIVE Serialize(_, _, _)
\* str(soup) from token i on, with d body elements open: the tree written
\* back as text; an end tag that closed nothing is gone, a body left open
\* gets its end tag
Serialize(doc, i, d) ==
    IF i > Len(doc) THEN [j \in 1..d |-> EndBodyTok(0)]
    ELSE IF doc[i].k = "body" THEN <<doc[i]>> \o Serialize(doc, i + 1, d + 1)
    ELSE IF doc[i].k = "endbody"
         THEN (IF d = 0 THEN Serialize(doc, i + 1, 0)
               ELSE <<doc[i]>> \o Serialize(doc, i + 1, d - 1))
    ELSE <<doc[i]>> \o Serialize(doc, i + 1, d)

\* del first_img.attrs['class'], del first_img.attrs['style']
StripAttrs(t) == [t EXCEPT !.class = FALSE, !.style = FALSE]

\* as CollapseImgs, keeping the last img element instead of the first
CollapseImgsKeepLast(doc) ==
    LET idx  == BodyImgIdx(doc)
        last == CHOOSE i \in idx : \A j \in idx : j <= i
        kept == [i \in 1..Len(doc) |-> IF i = last THEN StripAttrs(doc[i]) ELSE doc[i]]
    IN  SelectIdx(kept, (1..Len(doc)) \ (idx \ {last}), 1)

\* the tree after the decompose loop and the attribute deletion
CollapseImgs(doc) ==
    LET idx   == BodyImgIdx(doc)
        first == Min(idx)
        kept  == [i \in 1..Len(doc) |-> IF i = first THEN StripAttrs(doc[i]) ELSE doc[i]]
    IN  SelectIdx(kept, (1..Len(doc)) \ (idx \ {first}), 1)

\* fix_xhtml_content: the value returned and the file's content afterwards
FixXhtmlContent(doc) ==
    IF ~Decodable(doc) THEN [changed |-> FALSE, doc |-> doc]
    ELSE IF ~HasBody(doc) THEN [changed |-> FALSE, doc |-> doc]
    ELSE IF Cardinality(BodyImgIdx(doc)) < 2 THEN [changed |-> FALSE, doc |-> doc]
    ELSE [changed |-> TRUE, doc |-> Serialize(CollapseImgs(doc), 1, 0)]

(***************************************************************************)
(* Files, containers and working folders                                   *)
(***************************************************************************)
Entry(path, data, comp) == [name |-> path, data |-> data, comp |-> comp]

ZipFileOf(entries) == [kind |-> "zip", entries |-> entries]

\* a file that is no zip container
JunkFile == [kind |-> "junk", entries |-> <<>>]

EntryNames(entries) == {entries[i].name : i \in 1..Len(entries)}

\* the files an extraction of the container writes: a later entry of the
\* same name overwrites an earlier one
EntriesAsFiles(entries) ==
    [p \in EntryNames(entries) |->
        LET i == CHOOSE i \in 1..Len(entries) :
                    /\ entries[i].name = p
                    /\ \A j \in 1..Len(entries) : entries[j].name = p => j <= i
        IN  entries[i].data]

EmptyScratch == [exists |-> TRUE, dirs |-> EmptyFn]

NoScratch == [exists |-> FALSE, dirs |-> EmptyFn]

\* extract_target_path.mkdir(parents=True, exist_ok=True)
MkdirExistOk(scr, wf) ==
    [exists |-> TRUE,
     dirs |-> IF wf \in DOMAIN scr.dirs THEN scr.dirs ELSE Merge(scr.dirs, wf :> EmptyFn)]

\* as RemoveWorkingFolder, with rmdir in place of rmtree: a folder that
\* holds files stays
RmdirWorkingFolder(scr, wf) ==
    IF wf \in DOMAIN scr.dirs /\ scr.dirs[wf] = EmptyFn
    THEN [scr EXCEPT !.dirs = Without(scr.dirs, {wf})]
    ELSE scr

\* shutil.rmtree(dir) guarded by dir.exists()
RemoveWorkingFolder(scr, wf) == [scr EXCEPT !.dirs = Without(scr.dirs, {wf})]

\* extractall / unpack_archive into the folder: files already there stay
ExtractInto(scr, wf, files) ==
    LET made == MkdirExistOk(scr, wf)
    IN  [made EXCEPT !.dirs = Merge(made.dirs, wf :> Merge(made.dirs[wf], files))]

(***************************************************************************)
(* extract_archive                                                         *)
(***************************************************************************)
\* what can happen while an archive of the given suffix is extracted
ExtractEvents(suffix) ==
    IF suffix = "rar" THEN {"ok", "exc", "rarexec"}
    ELSE IF suffix = "zip" THEN {"ok", "exc"}
    ELSE {"ok"}

\* the scratch directory after the call, and whether a folder was returned
ExtractArchive(scr, item, ev) ==
    LET wf     == Stem(item.name)
        made   == MkdirExistOk(scr, wf)
        suffix == Suffix(item.name)
    IN  IF suffix \in {"zip", "rar"}
        THEN IF ~item.valid THEN [scratch |-> made, ok |-> FALSE]
             ELSE IF ev = "rarexec" THEN [scratch |-> made, ok |-> FALSE]
             ELSE IF ev = "exc"
                  THEN [scratch |-> RemoveWorkingFolder(made, wf), ok |-> FALSE]
             ELSE [scratch |-> ExtractInto(scr, wf, item.files), ok |-> TRUE]
        ELSE [scratch |-> made, ok |-> FALSE]

(***************************************************************************)
(* execute_conversion, convert_mobi_file, convert_jpeg_folder              *)
(***************************************************************************)
\* ebook-convert either fails, leaving the output directory as it was, or
\* writes the package it produced at the output path
ExecuteConversion(out, outPath, res) ==
    IF res.kind = "fail" THEN out ELSE Merge(out, outPath :> res)

\* output_dir / f"{base_name}.epub"
OutputEpubPath(baseName) == baseName \o <<"epub">>

(***************************************************************************)
(* fix_html_and_repack_epub                                                *)
(***************************************************************************)
\* the steps at which the call can raise
RepackFaults == {"none", "unpack", "normalize", "open", "write", "unlink", "rename"}

\* rglob('*.html') and rglob('*.xhtml')
IsMarkup(path) == Suffix(Last(path)) \in {"html", "xhtml"}

\* shutil.unpack_archive raises ReadError for a missing file or a non-zip
Readable(out, P) == P \in DOMAIN out /\ out[P].kind = "zip"

\* the working folder after step 1 (only used when the step created one)
UnpackedFolder(out, scr, P, fault) ==
    LET wf   == Stem(P)
        base == IF wf \in DOMAIN scr.dirs THEN scr.dirs[wf] ELSE EmptyFn
    IN  IF Readable(out, P) /\ fault # "unpack"
        THEN Merge(base, EntriesAsFiles(out[P].entries))
        ELSE base

\* the working folder after step 2
NormalizedFolder(folder) ==
    [p \in DOMAIN folder |->
        IF IsMarkup(p) THEN FixXhtmlContent(folder[p]).doc ELSE folder[p]]

\* as SecondPassFile, without the test on the name
SecondPassAnyFile(path) == TRUE

\* item.is_file() and item.name != 'mimetype'
SecondPassFile(path) == Last(path) # MimetypeName

SecondPassFiles(folder) == {p \in DOMAIN folder : SecondPassFile(p)}

\* zipfile.ZipFile(temp_epub_path, 'w'): the compression of an entry
\* written without a compress_type
DefaultCompression == "stored"

\* the entries written between ZipFile(...) and the end of the with block;
\* order is the order in which rglob('*') yields the files of the second pass
RebuildContainer(folder, order) ==
    (IF MimetypePath \in DOMAIN folder
     THEN <<Entry(MimetypePath, folder[MimetypePath], "stored")>>
     ELSE <<>>)
    \o [i \in 1..Len(order) |-> Entry(order[i], folder[order[i]], DefaultCompression)]

\* the whole call: the output directory and the scratch directory when it
\* returns, and the record of what it did
Repackage(out, scr, P, fault, order) ==
    LET wf        == Stem(P)
        folder    == NormalizedFolder(UnpackedFolder(out, scr, P, fault))
        temp      == TempEpubPath(P)
        unpacked  == Readable(out, P) /\ fault # "unpack"
        created   == Readable(out, P) \/ wf \in DOMAIN scr.dirs
        rebuild   == unpacked /\ fault # "normalize"
        opened    == rebuild /\ fault # "open"
        written   == opened /\ fault # "write"
        unlinked  == written /\ fault # "unlink"
        renamed   == unlinked /\ fault # "rename"
        full      == RebuildContainer(folder, order)
        \* a write that raises leaves the entries written before it
        container == IF written THEN full
                     ELSE IF opened THEN SubSeq(full, 1, Len(full) - 1)
                     ELSE <<>>
        \* ZipFile(temp_epub_path, 'w') creates or truncates the file
        out1      == IF opened THEN Merge(out, temp :> ZipFileOf(container)) ELSE out
        \* epub_path.unlink(missing_ok=True)
        out2      == IF unlinked THEN Without(out1, {P}) ELSE out1
        \* temp_epub_path.rename(epub_path)
        out3      == IF renamed
                     THEN Merge(Without(out2, {temp}), P :> ZipFileOf(container))
                     ELSE out2
        \* except: 'temp_epub_path' in locals() and temp_epub_path.exists()
        out4      == IF ~renamed /\ rebuild THEN Without(out3, {temp}) ELSE out3
        scr1      == IF created
                     THEN [scr EXCEPT !.dirs = Merge(scr.dirs, wf :> folder)]
                     ELSE scr
    IN  [output  |-> out4,
         \* finally: if temp_extract_dir.exists(): shutil.rmtree
         scratch |-> RemoveWorkingFolder(scr1, wf),
         rec     |-> [called |-> TRUE, P |-> P, fault |-> fault,
                      outcome |-> IF renamed THEN "success" ELSE "failure",
                      outBefore |-> out,
                      preExisted |-> wf \in DOMAIN scr.dirs,
                      opened |-> opened,
                      container |-> container]]

(***************************************************************************)
(* The files of the model's runs                                           *)
(***************************************************************************)
MimeData == <<TextTok(1)>>

JpgData == <<BadTok(1)>>

\* a page cut into two image slices
SlicedPage == <<BodyTok(1), ImgTok(2, TRUE, TRUE), ImgTok(3, TRUE, FALSE), EndBodyTok(4)>>

PagePath == <<<<"page1", "jpg">>>>

ChapterPath == <<<<"OEBPS">>, <<"ch1", "xhtml">>>>

NestedMimetypePath == <<<<"META">>, <<"mimetype">>>>

\* what ebook-convert writes when it succeeds
ConvertedEpub ==
    ZipFileOf(<<Entry(MimetypePath, MimeData, "stored"),
                Entry(ChapterPath, SlicedPage, "deflated")>>)

\* a package with no top-level mimetype entry and a file named mimetype
\* further down
OddEpub ==
    ZipFileOf(<<Entry(ChapterPath, SlicedPage, "deflated"),
                Entry(NestedMimetypePath, MimeData, "deflated")>>)

FailedConversion == [kind |-> "fail", entries |-> <<>>]

ConversionResults == {FailedConversion, ConvertedEpub}

PageFiles == PagePath :> JpgData

Item(name, kind, valid, files) ==
    [name |-> name, kind |-> kind, valid |-> valid, files |-> files]

ItemUniverse ==
    {Item(<<"book", "zip">>, "file", TRUE, PageFiles),
     Item(<<"book", "zip">>, "file", FALSE, EmptyFn),
     Item(<<"book", "rar">>, "file", TRUE, PageFiles),
     Item(<<"novel", "mobi">>, "file", TRUE, EmptyFn),
     Item(<<"pics">>, "dir", TRUE, PageFiles),
     Item(<<"docs">>, "dir", TRUE, <<<<"readme", "txt">>>> :> MimeData),
     Item(<<"notes", "txt">>, "file", TRUE, EmptyFn)}

\* the input directories of the runs: at most MaxItems items, no name twice
InputDirs ==
    {S \in SUBSET ItemUniverse :
        /\ Cardinality(S) <= MaxItems
        /\ \A a, b \in S : a.name = b.name => a = b}

\* what the output directory can hold before the run
InitialOutputs ==
    {EmptyFn,
     <<"book", "temp", "epub">> :> OddEpub,
     <<"old", "epub">> :> JunkFile}

\* what a scratch directory left by an earlier run can hold
InitialScratches ==
    {NoScratch,
     [exists |-> TRUE, dirs |-> <<"book">> :> (<<<<"stale", "jpg">>>> :> JpgData)]}

NoExtract == [called |-> FALSE, name |-> <<>>, ok |-> FALSE, before |-> NoScratch]

NoRepack ==
    [called |-> FALSE, P |-> <<>>, fault |-> "none", outcome |-> "failure",
     outBefore |-> EmptyFn, preExisted |-> FALSE, opened |-> FALSE,
     container |-> <<>>]

NoNormalize == [called |-> FALSE, before |-> <<>>, ret |-> FALSE]

(***************************************************************************)
(* main                                                                    *)
(***************************************************************************)
Init ==
    /\ pc = "start"
    /\ inputExists \in BOOLEAN
    /\ todo \in InputDirs
    /\ scratch \in InitialScratches
    /\ output \in InitialOutputs
    /\ epubTodo = {}
    /\ ex = NoExtract
    /\ rp = NoRepack
    /\ frag = <<>>
    /\ nz = NoNormalize

\* if not input_dir.exists(): return
MainNoInput ==
    /\ pc = "start"
    /\ ~inputExists
    /\ pc' = "noinput"
    /\ UNCHANGED <<inputExists, todo, scratch, output, epubTodo, ex, rp, frag, nz>>

\* the output directory is created, the temporary directory emptied
MainSetup ==
    /\ pc = "start"
    /\ inputExists
    /\ scratch' = EmptyScratch
    /\ pc' = "items"
    /\ UNCHANGED <<inputExists, todo, output, epubTodo, ex, rp, frag, nz>>

HasImage(item) ==
    \E p \in DOMAIN item.files : Len(p) = 1 /\ Suffix(p[1]) \in {"jpg", "jpeg", "png"}

\* item.is_file() and suffix == '.mobi': convert_mobi_file
MainMobi ==
    /\ pc = "items"
    /\ \E item \in todo, res \in ConversionResults :
        /\ item.kind = "file" /\ Suffix(item.name) = "mobi"
        /\ output' = ExecuteConversion(output, OutputEpubPath(Stem(item.name)), res)
        /\ todo' = todo \ {item}
    /\ UNCHANGED <<pc, inputExists, scratch, epubTodo, ex, rp, frag, nz>>

\* item.is_dir() with an image in it: convert_jpeg_folder
MainImageFolder ==
    /\ pc = "items"
    /\ \E item \in todo, res \in ConversionResults :
        /\ item.kind = "dir" /\ HasImage(item)
        /\ output' = ExecuteConversion(output, OutputEpubPath(item.name), res)
        /\ todo' = todo \ {item}
    /\ UNCHANGED <<pc, inputExists, scratch, epubTodo, ex, rp, frag, nz>>

\* item.is_dir() without an image, or a file of another kind: skipped
MainSkip ==
    /\ pc = "items"
    /\ \E item \in todo :
        /\ \/ item.kind = "dir" /\ ~HasImage(item)
           \/ item.kind = "file" /\ Suffix(item.name) \notin {"mobi", "zip", "rar"}
        /\ todo' = todo \ {item}
    /\ UNCHANGED <<pc, inputExists, scratch, output, epubTodo, ex, rp, frag, nz>>

\* a .zip or .rar file: extract_archive, then convert_jpeg_folder on the
\* folder it returned
MainArchive ==
    /\ pc = "items"
    /\ \E item \in todo, res \in ConversionResults :
        /\ item.kind = "file" /\ Suffix(item.name) \in {"zip", "rar"}
        /\ \E ev \in ExtractEvents(Suffix(item.name)) :
            LET r == ExtractArchive(scratch, item, ev)
            IN  /\ scratch' = r.scratch
                /\ ex' = [called |-> TRUE, name |-> item.name, ok |-> r.ok,
                          before |-> scratch]
                /\ output' = IF r.ok
                             THEN ExecuteConversion(output, OutputEpubPath(Stem(item.name)), res)
                             ELSE output
        /\ todo' = todo \ {item}
    /\ UNCHANGED <<pc, inputExists, epubTodo, rp, frag, nz>>

\* output_dir.glob('*.epub') lists the directory when the loop starts
MainGlob ==
    /\ pc = "items"
    /\ todo = {}
    /\ epubTodo' = {n \in DOMAIN output : Suffix(n) = "epub"}
    /\ pc' = "post"
    /\ UNCHANGED <<inputExists, todo, scratch, output, ex, rp, frag, nz>>

\* one pass of the loop over the packages: fix_html_and_repack_epub
MainRepack ==
    /\ pc = "post"
    /\ \E P \in epubTodo, fault \in RepackFaults :
        \E order \in Orderings(SecondPassFiles(UnpackedFolder(output, scratch, P, fault))) :
            LET r == Repackage(output, scratch, P, fault, order)
            IN  /\ output' = r.output
                /\ scratch' = r.scratch
                /\ rp' = r.rec
                /\ epubTodo' = epubTodo \ {P}
    /\ UNCHANGED <<pc, inputExists, todo, ex, frag, nz>>

\* as FinalCleanup, with rmdir in place of rmtree: a scratch directory
\* that holds folders stays
FinalCleanupRmdir(scr) == IF scr.dirs = EmptyFn THEN NoScratch ELSE scr

\* if temp_dir.exists(): shutil.rmtree(temp_dir)
FinalCleanup(scr) == NoScratch

MainCleanup ==
    /\ pc = "post"
    /\ epubTodo = {}
    /\ scratch' = FinalCleanup(scratch)
    /\ pc' = "done"
    /\ UNCHANGED <<inputExists, todo, output, epubTodo, ex, rp, frag, nz>>

Next ==
    \/ MainNoInput
    \/ MainSetup
    \/ MainMobi
    \/ MainImageFolder
    \/ MainSkip
    \/ MainArchive
    \/ MainGlob
    \/ MainRepack
    \/ MainCleanup

Spec == Init /\ [][Next]_vars

\* the position of main in its loops
ctl == <<pc, todo, epubTodo>>

\* what a step of main does to its position: every step of Next is one,
\* and one is possible exactly where a step of Next is
Advance ==
    \/ /\ pc = "start"
       /\ pc' = IF inputExists THEN "items" ELSE "noinput"
       /\ UNCHANGED <<todo, epubTodo>>
    \/ /\ pc = "items"
       /\ \E item \in todo : todo' = todo \ {item}
       /\ UNCHANGED <<pc, epubTodo>>
    \/ /\ pc = "items" /\ todo = {}
       /\ pc' = "post"
       /\ epubTodo' = {n \in DOMAIN output : Suffix(n) = "epub"}
       /\ UNCHANGED todo
    \/ /\ pc = "post"
       /\ \E P \in epubTodo : epubTodo' = epubTodo \ {P}
       /\ UNCHANGED <<pc, todo>>
    \/ /\ pc = "post" /\ epubTodo = {}
       /\ pc' = "done"
       /\ UNCHANGED <<todo, epubTodo>>

\* main is sequential and waits for nothing: while it has a step to take
\* it takes one
FairSpec == Spec /\ WF_ctl(Advance)

\* every step of main is a step of Advance that moves its position
AdvanceCoversNext == [][Next => (Advance /\ ctl' # ctl)]_vars

(***************************************************************************)
(* fix_xhtml_content on its own                                            *)
(***************************************************************************)
\* the tokens a fragment is made of, without their ids
TokenShapes ==
    {BodyTok(0), EndBodyTok(0), TextTok(0), BadTok(0)}
    \cup {ImgTok(0, c, s) : c, s \in BOOLEAN}

\* the fragment of the given shapes; the token at position i carries the
\* id i
FragmentOf(shape) == [i \in 1..Len(shape) |-> [shape[i] EXCEPT !.id = i]]

InitNormalize ==
    /\ pc = "start"
    /\ inputExists = TRUE
    /\ todo = {}
    /\ scratch = NoScratch
    /\ output = EmptyFn
    /\ epubTodo = {}
    /\ ex = NoExtract
    /\ rp = NoRepack
    /\ \E n \in 0..MaxTokens :
        \E shape \in [1..n -> TokenShapes] : frag = FragmentOf(shape)
    /\ nz = NoNormalize

\* one call of fix_xhtml_content on the file
Normalize ==
    /\ LET r == FixXhtmlContent(frag)
       IN  /\ frag' = r.doc
           /\ nz' = [called |-> TRUE, before |-> frag, ret |-> r.changed]
    /\ UNCHANGED batchVars

NextNormalize == Normalize

SpecNormalize == InitNormalize /\ [][NextNormalize]_vars

(***************************************************************************)
(* extract_archive on its own                                              *)
(***************************************************************************)
InitExtract ==
    /\ pc = "start"
    /\ inputExists = TRUE
    /\ todo = {}
    /\ scratch \in InitialScratches \cup {EmptyScratch}
    /\ output = EmptyFn
    /\ epubTodo = {}
    /\ ex = NoExtract
    /\ rp = NoRepack
    /\ frag = <<>>
    /\ nz = NoNormalize

\* one call of extract_archive on a file, whatever its extension
ExtractCall ==
    /\ \E item \in ItemUniverse :
        /\ item.kind = "file"
        /\ \E ev \in ExtractEvents(Suffix(item.name)) :
            LET r == ExtractArchive(scratch, item, ev)
            IN  /\ scratch' = r.scratch
                /\ ex' = [called |-> TRUE, name |-> item.name, ok |-> r.ok,
                          before |-> scratch]
    /\ UNCHANGED <<pc, inputExists, todo, output, epubTodo, rp, frag, nz>>

NextExtract == ExtractCall

SpecExtract == InitExtract /\ [][NextExtract]_vars

(***************************************************************************)
(* Properties                                                              *)
(***************************************************************************)
\* the package as it was before the last repackage call
Original == rp.outBefore[rp.P]

HadOriginal == rp.P \in DOMAIN rp.outBefore

Repacked == rp.called /\ rp.outcome = "success"

RepackFailed == rp.called /\ rp.outcome = "failure"

\* C1: when repackage returns after a failure at any step, the package's
\* path still holds the original bytes and no temporary container written
\* by the call remains
C1_FailureKeepsOriginal ==
    RepackFailed =>
        /\ HadOriginal => (rp.P \in DOMAIN output /\ output[rp.P] = Original)
        /\ ~(rp.opened /\ TempEpubPath(rp.P) \in DOMAIN output)

\* the layout rule: mimetype is the first entry, stored, and appears once
MimetypeFirstStoredOnce(c) ==
    /\ Len(c) >= 1
    /\ c[1].name = MimetypePath
    /\ c[1].comp = "stored"
    /\ Cardinality({i \in 1..Len(c) : c[i].name = MimetypePath}) = 1

\* C2: whenever repackage succeeds, the committed container's first entry
\* is mimetype, stored uncompressed, and mimetype appears only once
C2_MimetypeFirstAlways ==
    Repacked => MimetypeFirstStoredOnce(output[rp.P].entries)

\* C2 (amended): whenever repackage succeeds on a package that has a
\* top-level mimetype entry, the committed container's first entry is
\* mimetype, stored uncompressed, and mimetype appears only once
C2_MimetypeFirstIfPresent ==
    (Repacked /\ MimetypePath \in EntryNames(Original.entries))
        => MimetypeFirstStoredOnce(output[rp.P].entries)

C2_Witness ==
    /\ Repacked
    /\ MimetypePath \in EntryNames(Original.entries)
    /\ Len(output[rp.P].entries) >= 2
    /\ output[rp.P].entries[1].name = MimetypePath

\* C3: in every container written by Rebuild, every entry other than
\* mimetype is deflated
C3_OthersDeflated ==
    (rp.called /\ rp.opened) =>
        \A i \in 1..Len(rp.container) :
            rp.container[i].name # MimetypePath => rp.container[i].comp = "deflated"

\* C4: whenever repackage succeeds, every entry of the original other than
\* the top-level mimetype is in the output under the same path, with the
\* same content unless it is a markup fragment the normalizer changed
C4_EntriesPreserved ==
    Repacked =>
        \A i \in 1..Len(Original.entries) :
            LET e == Original.entries[i]
                c == output[rp.P].entries
            IN  e.name # MimetypePath =>
                    \E j \in 1..Len(c) :
                        /\ c[j].name = e.name
                        /\ \/ c[j].data = e.data
                           \/ /\ IsMarkup(e.name)
                              /\ FixXhtmlContent(e.data).changed
                              /\ c[j].data = FixXhtmlContent(e.data).doc

\* C5: when repackage starts to unpack, the scratch directory holds no
\* folder of the package's base name, so the rebuilt container holds only
\* entries of that package
C5_FreshWorkingFolder ==
    rp.called =>
        /\ ~rp.preExisted
        /\ HadOriginal =>
            \A i \in 1..Len(rp.container) :
                rp.container[i].name \in EntryNames(Original.entries)

\* C6: after extract returns a failure, no working folder created by the
\* call exists; for an extension other than zip and rar the call changes
\* nothing at all
C6_FailedExtractLeavesNothing ==
    (ex.called /\ ~ex.ok) =>
        /\ Stem(ex.name) \notin DOMAIN ex.before.dirs
                => Stem(ex.name) \notin DOMAIN scratch.dirs
        /\ Suffix(ex.name) \notin {"zip", "rar"} => scratch = ex.before

\* the number of img elements in the body of a file; a file that cannot be
\* decoded has no body
ImgCount(doc) == IF Decodable(doc) THEN Len(BodyImgs(doc)) ELSE 0

\* C7: with fewer than two img elements in the body (or no body) normalize
\* returns false and leaves the file as it was; with two or more it returns
\* true and the rewritten body holds exactly one img element, the one that
\* was first, without class and without style
C7_NormalizeCollapses ==
    nz.called =>
        /\ ImgCount(nz.before) < 2 => (~nz.ret /\ frag = nz.before)
        /\ ImgCount(nz.before) >= 2 =>
            /\ nz.ret
            /\ Len(BodyImgs(frag)) = 1
            /\ BodyImgs(frag)[1].id = BodyImgs(nz.before)[1].id
            /\ ~BodyImgs(frag)[1].class
            /\ ~BodyImgs(frag)[1].style

C7_Witness ==
    /\ nz.called
    /\ ImgCount(nz.before) >= 3
    /\ BodyImgs(nz.before)[1].class
    /\ BodyImgs(nz.before)[1].style
    /\ nz.ret
    /\ Len(BodyImgs(frag)) = 1

\* C8: whenever repackage has returned, on any exit path, no working folder
\* of the package is left in the scratch directory
C8_WorkingFolderRemoved ==
    rp.called => Stem(rp.P) \notin DOMAIN scratch.dirs

C8_Witness ==
    /\ RepackFailed
    /\ rp.fault = "write"
    /\ rp.preExisted
    /\ Stem(rp.P) \notin DOMAIN scratch.dirs

\* C9: a batch run whose input directory exists reaches its end with the
\* scratch directory removed, whatever failed on the way, and the scratch
\* directory is empty when the run starts on its items
C9_BatchEndsClean ==
    /\ inputExists => <>(pc = "done" /\ ~scratch.exists)
    /\ [][(pc = "start" /\ pc' = "items") => scratch' = EmptyScratch]_vars

C9_Witness ==
    /\ pc = "done"
    /\ ~scratch.exists
    /\ ex.called /\ ~ex.ok
    /\ RepackFailed

\* C10: repackage leaves every other file of the package's directory as it
\* was, on success and on failure
C10_OtherFilesUntouched ==
    rp.called =>
        \A Q \in (DOMAIN rp.outBefore) \ {rp.P} :
            Q \in DOMAIN output /\ output[Q] = rp.outBefore[Q]

====
